---- MODULE Spec2Model ----
(***************************************************************************)
(* Model of the keyword-extraction endpoint POST /analyze of app.py.       *)
(*                                                                         *)
(* Strings are sequences of one-character strings, so that lower(),        *)
(* strip() and isdigit() are computed character by character.  The NLP     *)
(* pipeline (spaCy) is a black box: the doc it returns for a text is part  *)
(* of the request the environment chooses, as is the fault it may raise.   *)
(* The iteration order of a Python set of str depends on the per-process   *)
(* hash seed; it is the process state hashSeed.                            *)
(***************************************************************************)
EXTENDS Integers, Sequences, FiniteSets, TLC

VARIABLES
  payload,   \* the request a client submits: its JSON body and the doc nlp() returns for its text
  hashSeed,  \* the str hash seed of the running server process
  budget,    \* how many more times the client submits the request
  log        \* the calls of analyze_text_route answered so far, oldest first

vars == <<payload, hashSeed, budget, log>>

----------------------------------------------------------------------------
(* Bounds of the exploration *)

MaxFill == 11     \* distinct filler noun chunks of the largest doc
MaxChunks == 1    \* noun chunks drawn from ChunkPool after the base doc
MaxEnts == 1      \* entities drawn from EntPool after the base doc
MaxPad == 1       \* whitespace characters around a request text
MaxSeed == 1      \* hash seeds 0..MaxSeed
MaxCalls == 3     \* calls of a replayed request

(* Constants of app.py *)

MinTextLen == 50  \* len(text.strip()) < 50
MinChunkLen == 3  \* len(clean_chunk) > 3
MinEntLen == 2    \* len(clean_ent) > 2
TopN == 10        \* most_common(10)
MinCount == 1     \* count >= 1
MaxKeywords == 7  \* [:7]

----------------------------------------------------------------------------
(* Python str operations *)

UpperCase == <<"A", "B", "C", "D", "E", "F", "G", "H", "I", "J", "K", "L", "M",
               "N", "O", "P", "Q", "R", "S", "T", "U", "V", "W", "X", "Y", "Z">>

LowerCase == <<"a", "b", "c", "d", "e", "f", "g", "h", "i", "j", "k", "l", "m",
               "n", "o", "p", "q", "r", "s", "t", "u", "v", "w", "x", "y", "z">>

Digits == {"0", "1", "2", "3", "4", "5", "6", "7", "8", "9"}

\* str.strip() without argument removes whitespace
Whitespace == {" ", "\t", "\n", "\r", "\f"}

\* the argument of strip(" .,;:!?-()[]{}'\"")
StripChars == {" ", ".", ",", ";", ":", "!", "?", "-", "(", ")", "[", "]", "{", "}", "'", "\""}

lower_char(c) ==
  IF \E i \in 1..26 : UpperCase[i] = c
  THEN LowerCase[CHOOSE i \in 1..26 : UpperCase[i] = c]
  ELSE c

lower(s) == [i \in 1..Len(s) |-> lower_char(s[i])]

RECURSIVE lstrip(_, _)
lstrip(s, chars) ==
  IF s # <<>> /\ Head(s) \in chars THEN lstrip(Tail(s), chars) ELSE s

RECURSIVE rstrip(_, _)
rstrip(s, chars) ==
  IF s # <<>> /\ s[Len(s)] \in chars THEN rstrip(SubSeq(s, 1, Len(s) - 1), chars) ELSE s

strip(s, chars) == rstrip(lstrip(s, chars), chars)

isdigit(s) == s # <<>> /\ \A i \in 1..Len(s) : s[i] \in Digits

\* needle in haystack, for two str
is_substring(needle, haystack) ==
  \E i \in 0..(Len(haystack) - Len(needle)) :
    SubSeq(haystack, i + 1, i + Len(needle)) = needle

----------------------------------------------------------------------------
(* The custom stop words *)

CUSTOM_STOP_WORDS ==
  {
    <<"p", "a", "g", "e">>,
    <<"s", "i", "t", "e">>,
    <<"w", "e", "b", "s", "i", "t", "e">>,
    <<"a", "r", "t", "i", "c", "l", "e">>,
    <<"c", "o", "n", "t", "e", "n", "t">>,
    <<"i", "n", "f", "o", "r", "m", "a", "t", "i", "o", "n">>,
    <<"c", "l", "i", "c", "k">>,
    <<"v", "i", "e", "w">>,
    <<"m", "e", "n", "u">>,
    <<"h", "o", "m", "e">>,
    <<"s", "e", "a", "r", "c", "h">>,
    <<"c", "o", "n", "t", "a", "c", "t">>,
    <<"n", "e", "w", "s">>,
    <<"p", "o", "s", "t">>,
    <<"b", "l", "o", "g">>,
    <<"c", "o", "m", "m", "e", "n", "t">>,
    <<"r", "e", "a", "d">>,
    <<"m", "o", "r", "e">>,
    <<"s", "h", "a", "r", "e">>,
    <<"l", "i", "k", "e">>,
    <<"f", "o", "l", "l", "o", "w">>,
    <<"a", "l", "s", "o">>,
    <<"h", "o", "w", "e", "v", "e", "r">>,
    <<"t", "h", "e", "r", "e", "f", "o", "r", "e">>,
    <<"e", "x", "a", "m", "p", "l", "e">>,
    <<"e", ".", "g", ".">>,
    <<"i", ".", "e", ".">>,
    <<"e", "t", "c">>,
    <<"f", "i", "g">>,
    <<"i", "m", "a", "g", "e">>,
    <<"p", "h", "o", "t", "o">>,
    <<"v", "i", "d", "e", "o">>,
    <<"c", "o", "p", "y", "r", "i", "g", "h", "t">>,
    <<"r", "i", "g", "h", "t", "s">>,
    <<"r", "e", "s", "e", "r", "v", "e", "d">>,
    <<"t", "e", "r", "m", "s">>,
    <<"p", "r", "i", "v", "a", "c", "y">>,
    <<"p", "o", "l", "i", "c", "y">>,
    <<"s", "u", "b", "s", "c", "r", "i", "b", "e">>,
    <<"l", "o", "g", "i", "n">>,
    <<"l", "o", "g", "o", "u", "t">>,
    <<"r", "e", "g", "i", "s", "t", "e", "r">>,
    <<"a", "c", "c", "o", "u", "n", "t">>,
    <<"l", "e", "a", "r", "n">>,
    <<"h", "e", "l", "p">>,
    <<"f", "a", "q">>,
    <<"s", "u", "p", "p", "o", "r", "t">>,
    <<"s", "e", "r", "v", "i", "c", "e", "s">>,
    <<"p", "r", "o", "d", "u", "c", "t", "s">>,
    <<"c", "o", "m", "p", "a", "n", "y">>,
    <<"a", "b", "o", "u", "t">>,
    <<"u", "s">>,
    <<"w", "e", "l", "c", "o", "m", "e">>,
    <<"t", "h", "a", "n", "k">>,
    <<"t", "h", "a", "n", "k", "s">>,
    <<"n", "b", "s", "p">>,
    <<"a", "m", "p">>,
    <<"q", "u", "o", "t">>,
    <<"a", "p", "o", "s">>,
    <<"l", "t">>,
    <<"g", "t">>
  }

\* entity labels kept by the entity rule
relevant_entity_labels ==
  {"ORG", "PRODUCT", "EVENT", "WORK_OF_ART", "LOC", "PERSON", "NORP", "GPE", "FACILITY"}

----------------------------------------------------------------------------
(* Candidate extraction *)

\* variant of clean: the text is stripped and not lowercased
clean_no_lower(text) == strip(text, StripChars)

\* .lower().strip(" .,;:!?-()[]{}'\"")
clean(text) == strip(lower(text), StripChars)

\* the loop over the tokens of a chunk
is_meaningful(chunk) ==
  \E i \in 1..Len(chunk.tokens) :
    /\ ~chunk.tokens[i].is_stop
    /\ ~chunk.tokens[i].is_punct
    /\ ~chunk.tokens[i].is_space

\* variant of chunk_keywords: the custom stop words are not looked up
chunk_keywords_no_stop(chunk) ==
  LET clean_chunk == clean(chunk.text) IN
    IF /\ Len(clean_chunk) > MinChunkLen
       /\ ~isdigit(clean_chunk)
       /\ is_meaningful(chunk)
    THEN <<clean_chunk>>
    ELSE <<>>

\* what one noun chunk appends to potential_keywords
chunk_keywords(chunk) ==
  LET clean_chunk == clean(chunk.text) IN
    IF /\ Len(clean_chunk) > MinChunkLen
       /\ clean_chunk \notin CUSTOM_STOP_WORDS
       /\ ~isdigit(clean_chunk)
       /\ is_meaningful(chunk)
    THEN <<clean_chunk>>
    ELSE <<>>

\* variant of ent_keywords: the custom stop words are not looked up
ent_keywords_no_stop(ent) ==
  IF ent.label_ \in relevant_entity_labels
  THEN LET clean_ent == clean(ent.text) IN
         IF Len(clean_ent) > MinEntLen /\ ~isdigit(clean_ent)
         THEN <<clean_ent>>
         ELSE <<>>
  ELSE <<>>

\* what one entity appends to potential_keywords
ent_keywords(ent) ==
  IF ent.label_ \in relevant_entity_labels
  THEN LET clean_ent == clean(ent.text) IN
         IF /\ Len(clean_ent) > MinEntLen
            /\ clean_ent \notin CUSTOM_STOP_WORDS
            /\ ~isdigit(clean_ent)
         THEN <<clean_ent>>
         ELSE <<>>
  ELSE <<>>

RECURSIVE chunks_keywords(_)
chunks_keywords(chunks) ==
  IF chunks = <<>> THEN <<>>
  ELSE chunk_keywords(Head(chunks)) \o chunks_keywords(Tail(chunks))

RECURSIVE ents_keywords(_)
ents_keywords(ents) ==
  IF ents = <<>> THEN <<>>
  ELSE ent_keywords(Head(ents)) \o ents_keywords(Tail(ents))

\* variant of extract_potential_keywords: an entity that repeats a noun chunk
\* is not appended
extract_without_repeats(doc) ==
  LET from_chunks == chunks_keywords(doc.noun_chunks) IN
    from_chunks \o SelectSeq(ents_keywords(doc.ents),
                             LAMBDA kw : \A i \in 1..Len(from_chunks) : from_chunks[i] # kw)

\* potential_keywords after both loops
extract_potential_keywords(doc) ==
  chunks_keywords(doc.noun_chunks) \o ents_keywords(doc.ents)

----------------------------------------------------------------------------
(* Ranking *)

\* the keys of a sequence in first-seen order
RECURSIVE first_seen(_)
first_seen(seq) ==
  IF seq = <<>> THEN <<>>
  ELSE LET init == first_seen(SubSeq(seq, 1, Len(seq) - 1))
           x == seq[Len(seq)]
       IN IF \E i \in 1..Len(init) : init[i] = x THEN init ELSE Append(init, x)

occurrences(seq, x) == Cardinality({i \in 1..Len(seq) : seq[i] = x})

\* Counter(potential_keywords): (keyword, count) items in insertion order
Counter(seq) ==
  LET keys == first_seen(seq) IN
    [i \in 1..Len(keys) |-> [kw |-> keys[i], count |-> occurrences(seq, keys[i])]]

\* keyword_counts[x]
count_of(counter, x) ==
  IF \E i \in 1..Len(counter) : counter[i].kw = x
  THEN counter[CHOOSE i \in 1..Len(counter) : counter[i].kw = x].count
  ELSE 0

\* sorted(items, key=count, reverse=True): stable, equal counts keep their order
sorted_by_count(items) ==
  LET n == Len(items)
      pos(i) == 1 + Cardinality({j \in 1..n :
                       \/ items[j].count > items[i].count
                       \/ items[j].count = items[i].count /\ j < i})
  IN [k \in 1..n |-> items[CHOOSE i \in 1..n : pos(i) = k]]

take(seq, n) == SubSeq(seq, 1, IF Len(seq) < n THEN Len(seq) ELSE n)

\* variant of most_common: the first n items in insertion order
most_common_unsorted(counter, n) == take(counter, n)

\* Counter.most_common(n): heapq.nlargest(n, items, key=count)
most_common(counter, n) == take(sorted_by_count(counter), n)

\* variant of top_keywords_of: the threshold is count >= 2
top_keywords_min_2(counter) ==
  LET kept == SelectSeq(most_common(counter, TopN), LAMBDA e : e.count >= MinCount + 1)
  IN [i \in 1..Len(kept) |-> kept[i].kw]

\* [kw for kw, count in keyword_counts.most_common(10) if count >= 1]
top_keywords_of(counter) ==
  LET kept == SelectSeq(most_common(counter, TopN), LAMBDA e : e.count >= MinCount)
  IN [i \in 1..Len(kept) |-> kept[i].kw]

\* list(set(top_keywords)): the elements once each, in the order the hash seed gives
set_to_list(seq, seed) ==
  LET elems == first_seen(seq)
      n == Len(elems)
  IN [i \in 1..n |-> elems[((i - 1 + seed) % n) + 1]]

\* sorted(list(set(top_keywords)), key=lambda x: keyword_counts[x], reverse=True)[:7]
unique_top_keywords_of(counter, seed) ==
  LET listed == set_to_list(top_keywords_of(counter), seed)
      items == [i \in 1..Len(listed) |->
                  [kw |-> listed[i], count |-> count_of(counter, listed[i])]]
      ranked == sorted_by_count(items)
  IN take([i \in 1..Len(ranked) |-> ranked[i].kw], MaxKeywords)

----------------------------------------------------------------------------
(* JSON values of a request body, with Python's view of them *)

JNull == [type |-> "null"]
JBool(b) == [type |-> "bool", value |-> b]
JNum(n) == [type |-> "number", value |-> n]
JStr(chars) == [type |-> "string", chars |-> chars]
JArr(items) == [type |-> "array", items |-> items]
JObj(fields) == [type |-> "object", fields |-> fields]

\* bool(value)
truthy(v) ==
  CASE v.type = "null" -> FALSE
    [] v.type = "bool" -> v.value
    [] v.type = "number" -> v.value # 0
    [] v.type = "string" -> v.chars # <<>>
    [] v.type = "array" -> v.items # <<>>
    [] v.type = "object" -> DOMAIN v.fields # {}

\* 'text' in value raises TypeError for a value that is no container
in_raises(v) == v.type \in {"number", "bool", "null"}

\* 'text' in value: a key of a dict, an element of a list, a substring of a str
has_text(v) ==
  CASE v.type = "object" -> "text" \in DOMAIN v.fields
    [] v.type = "array" -> \E i \in 1..Len(v.items) : v.items[i] = JStr(<<"t", "e", "x", "t">>)
    [] v.type = "string" -> is_substring(<<"t", "e", "x", "t">>, v.chars)
    [] OTHER -> FALSE

\* value['text'] raises TypeError for a list or a str
getitem_raises(v) == v.type # "object"

\* variant of text_invalid: the length is taken without strip()
text_invalid_unstripped(text) ==
  \/ ~truthy(text)
  \/ text.type # "string"
  \/ Len(text.chars) < MinTextLen

\* not text or not isinstance(text, str) or len(text.strip()) < 50
text_invalid(text) ==
  \/ ~truthy(text)
  \/ text.type # "string"
  \/ Len(strip(text.chars, Whitespace)) < MinTextLen

----------------------------------------------------------------------------
(* Responses *)

Response(status, body) == [status |-> status, body |-> body]

missing_text_response ==
  Response(400, [error |-> <<"Missing 'text' in JSON payload">>])

invalid_text_response ==
  Response(400, [error |-> <<"Text is too short or invalid.">>])

\* variant of internal_error_response: the status is left to its default, 200
internal_error_status_200(e) ==
  Response(200, [error |-> <<"An internal error occurred during analysis: ", e>>])

\* the except clause: the f-string is the prefix followed by str(e)
internal_error_response(e) ==
  Response(500, [error |-> <<"An internal error occurred during analysis: ", e>>])

\* an exception raised outside the try block reaches Flask, which answers 500
\* with its own error page
unhandled_error_response == Response(500, [html |-> "Internal Server Error"])

\* the answer once potential_keywords is complete
ranked_response(potential_keywords, seed) ==
  IF potential_keywords = <<>>
  THEN Response(200, [keywords |-> <<>>,
                      message |-> "No significant keywords found after NLP processing."])
  ELSE LET unique_top_keywords == unique_top_keywords_of(Counter(potential_keywords), seed) IN
         IF unique_top_keywords = <<>>
         THEN Response(200, [keywords |-> <<>>,
                message |-> "Keywords found but did not meet frequency or uniqueness criteria."])
         ELSE Response(200, [keywords |-> unique_top_keywords])

----------------------------------------------------------------------------
(* One call of analyze_text_route *)

NoFault == "none"

\* what a call leaves behind: its response, the hash seed it ran under, whether
\* nlp() was called and what it raised, and the handler's locals
Call(response, seed, nlp_called, raised, potential_keywords) ==
  [response |-> response, seed |-> seed, nlp_called |-> nlp_called, raised |-> raised,
   potential_keywords |-> potential_keywords,
   keyword_counts |-> Counter(potential_keywords)]

\* p is the request, seed the hash seed of the process, fault what nlp() raises
\* on this call (NoFault: it returns p.doc)
analyze_text_route_call(p, seed, fault) ==
  IF ~truthy(p.json)
  THEN Call(missing_text_response, seed, FALSE, NoFault, <<>>)
  ELSE IF in_raises(p.json)
  THEN Call(unhandled_error_response, seed, FALSE, NoFault, <<>>)
  ELSE IF ~has_text(p.json)
  THEN Call(missing_text_response, seed, FALSE, NoFault, <<>>)
  ELSE IF getitem_raises(p.json)
  THEN Call(unhandled_error_response, seed, FALSE, NoFault, <<>>)
  ELSE IF text_invalid(p.json.fields.text)
  THEN Call(invalid_text_response, seed, FALSE, NoFault, <<>>)
  ELSE IF fault # NoFault
  THEN Call(internal_error_response(fault), seed, TRUE, fault, <<>>)
  ELSE LET potential_keywords == extract_potential_keywords(p.doc) IN
         Call(ranked_response(potential_keywords, seed), seed, TRUE, NoFault,
              potential_keywords)

----------------------------------------------------------------------------
(* The requests explored *)

Seeds == 0..MaxSeed

\* str(e) of the exceptions nlp() may raise
Faults == {"[E088] Text exceeds maximum length"}

Tok(stop, punct, space) == [is_stop |-> stop, is_punct |-> punct, is_space |-> space]
Word == Tok(FALSE, FALSE, FALSE)
StopWord == Tok(TRUE, FALSE, FALSE)
Punct == Tok(FALSE, TRUE, FALSE)

Chunk(text, tokens) == [text |-> text, tokens |-> tokens]
Ent(text, label) == [text |-> text, label_ |-> label]
Doc(chunks, ents) == [noun_chunks |-> chunks, ents |-> ents]

Topic == <<"T", "o", "p", "i", "c", " ">>

\* "Topic A", "Topic B", ...: distinct chunks that all pass the noun-phrase rule
Filler(i) == Chunk(Topic \o <<UpperCase[i]>>, <<Word, Word>>)
Fillers(n) == [i \in 1..n |-> Filler(i)]

\* the last filler again, in another spelling: "topic k,"
LastFillerAgain == Chunk(lower(Topic) \o <<LowerCase[MaxFill], ",">>, <<Word, Word, Punct>>)

Microsoft == <<"M", "i", "c", "r", "o", "s", "o", "f", "t">>
MICROSOFT == <<"(", "M", "I", "C", "R", "O", "S", "O", "F", "T", ")">>
CloudComputing == <<"c", "l", "o", "u", "d", " ", "c", "o", "m", "p", "u", "t", "i", "n", "g">>
ThePage == <<"t", "h", "e", " ", "p", "a", "g", "e">>
PageDot == <<"P", "a", "g", "e", ".">>
This == <<"t", "h", "i", "s">>
Year == <<"2", "0", "2", "4">>
News == <<"N", "e", "w", "s">>
EgDot == <<"e", ".", "g", ".">>
Monday == <<"M", "o", "n", "d", "a", "y">>
IBM == <<"I", "B", "M">>

ChunkPool ==
  { Chunk(Microsoft, <<Word>>),
    Chunk(ThePage, <<StopWord, Word>>),
    Chunk(PageDot, <<Word, Punct>>),
    LastFillerAgain }

EntPool ==
  { Ent(MICROSOFT, "ORG"),
    Ent(News, "ORG"),
    Ent(EgDot, "PRODUCT") }

\* spans the rules reject: a chunk of stop words only, a number, an entity with
\* a label that is not relevant; and an entity of three characters, accepted
NoiseDoc ==
  Doc(<<Chunk(This, <<StopWord>>), Chunk(Year, <<Word>>)>>,
      <<Ent(Monday, "DATE"), Ent(Year, "EVENT"), Ent(IBM, "ORG")>>)

\* Microsoft three times (two chunks, one entity) and cloud computing twice
ScenarioDoc ==
  Doc(<<Chunk(Microsoft, <<Word>>), Chunk(CloudComputing, <<Word, Word>>),
        Chunk(<<"\"">> \o CloudComputing \o <<"\"">>, <<Punct, Word, Word, Punct>>),
        Chunk(Microsoft, <<Word>>)>>,
      <<Ent(Microsoft, "ORG")>>)

FillChoices == {0, 2, MaxFill - 3, MaxFill}

BaseDocs == {Doc(Fillers(n), <<>>) : n \in FillChoices} \cup {ScenarioDoc, NoiseDoc}

SeqsUpTo(S, n) == UNION {[1..k -> S] : k \in 0..n}

Docs ==
  { Doc(b.noun_chunks \o cs, b.ents \o es) :
      b \in BaseDocs, cs \in SeqsUpTo(ChunkPool, MaxChunks), es \in SeqsUpTo(EntPool, MaxEnts) }

EmptyDoc == Doc(<<>>, <<>>)

\* a request text: lead whitespace characters, a body of n characters that
\* starts and ends with a letter, trail whitespace characters
Pad(n) == [i \in 1..n |-> IF i % 3 = 1 THEN " " ELSE IF i % 3 = 2 THEN "\n" ELSE "\t"]
Body(n) == [i \in 1..n |-> IF i % 7 = 2 /\ i < n THEN " " ELSE "x"]
Text(lead, n, trail) == Pad(lead) \o Body(n) \o Pad(trail)

BodyLens == {0, 1, MinTextLen - 1, MinTextLen, MinTextLen + 1}

Texts == {Text(lead, n, trail) : lead \in 0..MaxPad, n \in BodyLens, trail \in 0..MaxPad}

TextWord == <<"t", "e", "x", "t">>

\* bodies without a text field
BodiesWithoutText ==
  { JNull, JObj(<<>>), JObj([url |-> JStr(Text(0, MinTextLen, 0))]),
    JArr(<<>>), JArr(<<JStr(TextWord)>>), JArr(<<JNum(1)>>),
    JStr(<<>>), JStr(TextWord), JStr(<<"c", "o", "n">> \o TextWord), JStr(This),
    JNum(0), JNum(5), JBool(FALSE), JBool(TRUE) }

\* text values that are no str
NonStrings ==
  { JNull, JNum(0), JNum(7), JBool(TRUE), JBool(FALSE), JObj(<<>>),
    JObj([text |-> JStr(Text(0, MinTextLen, 0))]), JArr(<<>>),
    JArr(<<JStr(Text(0, MinTextLen, 0))>>) }

Request(json, doc) == [json |-> json, doc |-> doc]

TextRequest(text, doc) == Request(JObj([text |-> text]), doc)

GoodText == Text(1, MinTextLen, 0)

Requests ==
  {Request(j, EmptyDoc) : j \in BodiesWithoutText}
    \cup {TextRequest(t, EmptyDoc) : t \in NonStrings}
    \cup {TextRequest(JStr(t), d) : t \in Texts, d \in {EmptyDoc, Doc(Fillers(2), <<>>)}}
    \cup {TextRequest(JStr(GoodText), d) : d \in Docs}

\* the requests a client submits several times
ReplayRequests ==
  {Request(JNum(5), EmptyDoc)}
    \cup {TextRequest(JStr(GoodText), Doc(Fillers(n), <<>>)) : n \in {2, MaxFill}}
    \cup {TextRequest(JStr(GoodText), ScenarioDoc)}

----------------------------------------------------------------------------
(* The server *)

Init ==
  /\ payload \in Requests
  /\ hashSeed \in Seeds
  /\ budget = (IF payload \in ReplayRequests THEN MaxCalls ELSE 1)
  /\ log = <<>>

\* one request answered by analyze_text_route
analyze_text_route ==
  /\ budget > 0
  /\ \E fault \in Faults \cup {NoFault} :
       log' = Append(log, analyze_text_route_call(payload, hashSeed, fault))
  /\ budget' = budget - 1
  /\ UNCHANGED <<payload, hashSeed>>

\* the server process is started again: a new hash seed
Restart ==
  /\ budget > 0
  /\ log # <<>>
  /\ \E seed \in Seeds : hashSeed' = seed
  /\ UNCHANGED <<payload, budget, log>>

Next == analyze_text_route \/ Restart

Spec == Init /\ [][Next]_vars

----------------------------------------------------------------------------
(* Vocabulary of the properties *)

Range(seq) == {seq[i] : i \in 1..Len(seq)}

Calls == Range(log)

\* the request body is a JSON object with a text field
HasTextField == payload.json.type = "object" /\ "text" \in DOMAIN payload.json.fields

TextField == payload.json.fields.text

\* length of a str without its leading and trailing whitespace, from the
\* positions of its first and last character that is no whitespace
TrimmedLen(s) ==
  LET solid == {i \in 1..Len(s) : s[i] \notin Whitespace} IN
    IF solid = {} THEN 0
    ELSE (CHOOSE i \in solid : \A j \in solid : j <= i)
           - (CHOOSE i \in solid : \A j \in solid : i <= j) + 1

\* a call that ran the extraction and the ranking to their end
Ranked(c) == c.nlp_called /\ c.raised = NoFault

Keywords(c) == c.response.body.keywords

\* how often a candidate was appended
Occ(c, kw) == Cardinality({i \in 1..Len(c.potential_keywords) : c.potential_keywords[i] = kw})

Candidates(c) == Range(c.potential_keywords)

Min(a, b) == IF a < b THEN a ELSE b

Page == <<"p", "a", "g", "e">>

----------------------------------------------------------------------------
(* C1: every request whose body has no text field (an empty object, an      *)
(* object with other keys, a JSON value that is no object) is answered 400  *)
(* with {"error": "Missing 'text' in JSON payload"}.                        *)
C1_MissingTextIs400 ==
  \A c \in Calls :
    ~HasTextField =>
      c.response = Response(400, [error |-> <<"Missing 'text' in JSON payload">>])

(* C2: a text field that is no str, or a str shorter than 50 characters     *)
(* once trimmed, is answered 400 "Text is too short or invalid." without a  *)
(* call of nlp(); a str of 50 or more characters once trimmed passes the    *)
(* validation.                                                              *)
C2_TextValidation ==
  \A c \in Calls :
    HasTextField =>
      IF TextField.type # "string" \/ TrimmedLen(TextField.chars) < 50
      THEN /\ c.response = Response(400, [error |-> <<"Text is too short or invalid.">>])
           /\ ~c.nlp_called
      ELSE c.nlp_called /\ c.response.status # 400

\* a text of 50 characters or more, whitespace included, and fewer than 50
\* once trimmed, was rejected
C2_Witness ==
  \E c \in Calls :
    /\ HasTextField
    /\ TextField.type = "string"
    /\ Len(TextField.chars) >= 50
    /\ TrimmedLen(TextField.chars) = 49
    /\ c.response.status = 400

(* C3: the keywords of a 200 response are at most 7 and pairwise distinct,  *)
(* also when compared without regard to case.                               *)
C3_AtMostSevenDistinct ==
  \A c \in Calls :
    c.response.status = 200 =>
      /\ Len(Keywords(c)) <= 7
      /\ \A i, j \in 1..Len(Keywords(c)) :
           i # j => lower(Keywords(c)[i]) # lower(Keywords(c)[j])

\* seven keywords out of more than seven distinct candidates, from a doc in
\* which one phrase occurs in two spellings
C3_Witness ==
  \E c \in Calls :
    /\ c.response.status = 200
    /\ Len(Keywords(c)) = 7
    /\ Cardinality(Candidates(c)) > 7
    /\ \E i, j \in 1..Len(payload.doc.noun_chunks) :
         /\ payload.doc.noun_chunks[i].text # payload.doc.noun_chunks[j].text
         /\ lower(strip(payload.doc.noun_chunks[i].text, StripChars))
              = lower(strip(payload.doc.noun_chunks[j].text, StripChars))

(* C4: two calls with the same text, hence the same doc, return the same    *)
(* keywords in the same order: the result does not depend on the order in   *)
(* which the set built from the top-10 selection is iterated.               *)
C4_SameTextSameKeywords ==
  \A c, d \in Calls :
    Ranked(c) /\ Ranked(d) => Keywords(c) = Keywords(d)

(* C5: no returned keyword, normalized, is a custom stop word, whether it   *)
(* comes from a noun phrase or from an entity.                              *)
C5_NoStopWordReturned ==
  \A c \in Calls :
    c.response.status = 200 =>
      \A i \in 1..Len(Keywords(c)) : clean(Keywords(c)[i]) \notin CUSTOM_STOP_WORDS

\* keywords were returned for a doc with a noun chunk and an entity that
\* normalize to stop words
C5_Witness ==
  \E c \in Calls :
    /\ c.response.status = 200
    /\ Keywords(c) # <<>>
    /\ \E i \in 1..Len(payload.doc.noun_chunks) :
         lower(strip(payload.doc.noun_chunks[i].text, StripChars)) \in CUSTOM_STOP_WORDS
    /\ \E i \in 1..Len(payload.doc.ents) :
         /\ payload.doc.ents[i].label_ \in relevant_entity_labels
         /\ lower(strip(payload.doc.ents[i].text, StripChars)) \in CUSTOM_STOP_WORDS

(* C6: the keywords are ranked by count, greatest first, no omitted         *)
(* candidate has a greater count than a returned one, and all candidates    *)
(* are returned when at most 7 are distinct.                                *)
C6_RankedByCount ==
  \A c \in Calls :
    Ranked(c) /\ c.potential_keywords # <<>> =>
      /\ \A i, j \in 1..Len(Keywords(c)) :
           i < j => Occ(c, Keywords(c)[i]) >= Occ(c, Keywords(c)[j])
      /\ \A kw \in Candidates(c) \ Range(Keywords(c)) :
           \A i \in 1..Len(Keywords(c)) : Occ(c, kw) <= Occ(c, Keywords(c)[i])
      /\ Cardinality(Candidates(c)) <= 7 => Range(Keywords(c)) = Candidates(c)

\* more than 10 distinct candidates, one of them first seen last and counted
\* twice: it is returned first
C6_Witness ==
  \E c \in Calls :
    /\ Ranked(c)
    /\ Cardinality(Candidates(c)) > 10
    /\ Occ(c, c.potential_keywords[Len(c.potential_keywords)]) = 2
    /\ Keywords(c)[1] = c.potential_keywords[Len(c.potential_keywords)]
    /\ Occ(c, Keywords(c)[2]) = 1

(* C7, as claimed: a noun chunk with raw text "the page" is excluded from   *)
(* the candidates, even when one of its tokens is no stop word.             *)
C7_ThePageExcluded ==
  \A c \in Calls :
    Ranked(c) /\ (\E i \in 1..Len(payload.doc.noun_chunks) :
                    payload.doc.noun_chunks[i].text = ThePage) =>
      /\ ThePage \notin Candidates(c)
      /\ Page \notin Candidates(c)

(* C7, amended: a noun chunk whose raw text normalizes to "page" (such as   *)
(* "Page.") is excluded from the candidates even when one of its tokens is  *)
(* neither stop word, punctuation nor whitespace; "the page" normalizes to  *)
(* "the page" and is a candidate when one of its tokens is not flagged.     *)
C7_PageExcluded ==
  \A c \in Calls :
    Ranked(c) =>
      \A i \in 1..Len(payload.doc.noun_chunks) :
        LET chunk == payload.doc.noun_chunks[i] IN
          /\ lower(strip(chunk.text, StripChars)) = Page /\ is_meaningful(chunk)
               => Page \notin Candidates(c)
          /\ chunk.text = ThePage /\ is_meaningful(chunk) => ThePage \in Candidates(c)

\* a doc with the noun chunk "Page.", one token of which is not flagged
C7_Witness ==
  \E c \in Calls :
    /\ Ranked(c)
    /\ \E i \in 1..Len(payload.doc.noun_chunks) :
         /\ payload.doc.noun_chunks[i].text = PageDot
         /\ is_meaningful(payload.doc.noun_chunks[i])
    /\ Page \notin Candidates(c)

RECURSIVE ChunkYield(_)
ChunkYield(chunks) ==
  IF chunks = <<>> THEN <<>>
  ELSE <<chunk_keywords(Head(chunks))>> \o ChunkYield(Tail(chunks))

RECURSIVE EntYield(_)
EntYield(ents) ==
  IF ents = <<>> THEN <<>>
  ELSE <<ent_keywords(Head(ents))>> \o EntYield(Tail(ents))

\* the spans of a yield that were accepted as kw
Hits(yield, kw) == Cardinality({i \in 1..Len(yield) : yield[i] = <<kw>>})

\* the place of a returned keyword
Place(c, kw) == CHOOSE i \in 1..Len(Keywords(c)) : Keywords(c)[i] = kw

(* C9: the count of a normalized string is the number of accepted noun      *)
(* chunks plus the number of accepted entities that normalize to it; a      *)
(* phrase found by both signals is returned before a returned phrase found  *)
(* once.                                                                    *)
C9_OnePool ==
  LET chunk_yield == ChunkYield(payload.doc.noun_chunks)
      ent_yield == EntYield(payload.doc.ents)
  IN \A c \in Calls :
       Ranked(c) =>
         /\ \A kw \in Candidates(c) :
              count_of(c.keyword_counts, kw) = Hits(chunk_yield, kw) + Hits(ent_yield, kw)
         /\ \A i \in 1..Len(c.keyword_counts) :
              c.keyword_counts[i].kw \in Candidates(c)
         /\ c.potential_keywords # <<>> =>
              \A both \in {kw \in Range(Keywords(c)) :
                              Hits(chunk_yield, kw) >= 1 /\ Hits(ent_yield, kw) >= 1} :
                \A once \in {kw \in Range(Keywords(c)) :
                                Hits(chunk_yield, kw) + Hits(ent_yield, kw) = 1} :
                  Place(c, both) < Place(c, once)

\* a phrase found once as a noun chunk and once as an entity is returned
\* first, before a phrase found once
C9_Witness ==
  LET chunk_yield == ChunkYield(payload.doc.noun_chunks)
      ent_yield == EntYield(payload.doc.ents)
  IN \E c \in Calls :
       /\ Ranked(c)
       /\ Len(Keywords(c)) >= 2
       /\ Hits(chunk_yield, Keywords(c)[1]) = 1
       /\ Hits(ent_yield, Keywords(c)[1]) = 1
       /\ count_of(c.keyword_counts, Keywords(c)[1]) = 2
       /\ Hits(chunk_yield, Keywords(c)[2]) + Hits(ent_yield, Keywords(c)[2]) = 1

(* C10: a 200 response has no keywords exactly if no candidate was          *)
(* accepted, and then its message is "No significant keywords found after   *)
(* NLP processing."; the message "Keywords found but did not meet frequency *)
(* or uniqueness criteria." is never sent; with candidates, the response    *)
(* has min(7, distinct candidates) keywords and no message.                 *)
C10_EmptyIffNoCandidate ==
  \A c \in Calls :
    Ranked(c) =>
      /\ c.response.status = 200
      /\ Keywords(c) = <<>> <=> c.potential_keywords = <<>>
      /\ c.potential_keywords = <<>> =>
           c.response.body =
             [keywords |-> <<>>,
              message |-> "No significant keywords found after NLP processing."]
      /\ c.potential_keywords # <<>> =>
           /\ Len(Keywords(c)) = Min(7, Cardinality(Candidates(c)))
           /\ DOMAIN c.response.body = {"keywords"}

\* a doc with noun chunks and entities none of which is accepted
C10_Witness ==
  \E c \in Calls :
    /\ Ranked(c)
    /\ payload.doc.noun_chunks # <<>>
    /\ payload.doc.ents # <<>>
    /\ c.potential_keywords = <<>>
    /\ c.response.body.message = "No significant keywords found after NLP processing."

====
